---- MODULE Spec2Model ----
(***************************************************************************)
(* Model of the GitHub webhook reconciliation path of the Mizu backend:    *)
(* signature verification, the webhook HTTP handler, the change-set        *)
(* classifier and ArticleService's push processing.                        *)
(***************************************************************************)
EXTENDS Integers, Sequences, FiniteSets, TLC

VARIABLES
    repoImpl,   \* which ArticleRepository the service was built with
    files,      \* content of the GitHub repository: path -> file content
    allowed,    \* AppConfig.allowed_repositories
    db,         \* persisted articles: id -> row
    db0,        \* the store as it was after construction
    now,        \* what OffsetDateTime::now_utc() returns
    delivered,  \* number of requests that arrived so far
    sigIn,      \* input of a direct verify_signature call
    sigOut,     \* its result
    guard,      \* the TransactionGuard of a unit of work on the store
    clsIn,      \* input of a direct get_push_file_changes call
    clsOut,     \* its result
    tasks,      \* the webhook tasks: position, request, what each did so far
    lock,       \* the RwLock of allowed_repositories: who holds it
    watcher,    \* the configuration-reload watcher
    index,      \* the search index and the call that is changing it
    idCall      \* input and result of an is_valid_id call

vars == <<repoImpl, files, allowed, db, db0, now, delivered,
          sigIn, sigOut, guard, clsIn, clsOut, tasks, lock, watcher, index, idCall>>

----------------------------------------------------------------------------
(* Bounds *)

MaxChanges == 3       \* commits in a push (each commit lists one path)
MaxHexLen == 3        \* hex characters after the prefix in a signature header
MaxBatch == 3         \* articles in one insert_batch call
MaxStaging == 2       \* staging calls on one TransactionGuard
MaxCommits == 2       \* commits of an event handed to the classifier directly
MaxReloads == 1       \* changes of config.toml the watcher sees
MaxIndexCalls == 1    \* calls that change the search index

----------------------------------------------------------------------------
(* Signature verification: infrastructure/github/signature.rs *)

Payloads == {0, 1}          \* raw request bodies (byte strings), by number
Keys == {0, 1}              \* HMAC keys, by number
Secret == [key |-> 0]       \* AppConfig.github_webhook_secret

HexLower == <<"0","1","2","3","4","5","6","7","8","9","a","b","c","d","e","f">>
HexUpper == <<"0","1","2","3","4","5","6","7","8","9","A","B","C","D","E","F">>

\* HMAC-SHA256 stands as a keyed digest that has no collisions on
\* Keys \X Payloads; the digest is one byte long here instead of 32.
hmac_sha256(key, payload) == << 16 * (10 + key) + (10 + payload) >>

\* hex::encode: two lower-case digits per byte
RECURSIVE hex_encode(_)
hex_encode(bytes) ==
    IF bytes = <<>> THEN <<>>
    ELSE << HexLower[(Head(bytes) \div 16) + 1], HexLower[(Head(bytes) % 16) + 1] >>
         \o hex_encode(Tail(bytes))

IsHexDigit(c) == \E i \in 1..16 : HexLower[i] = c \/ HexUpper[i] = c
HexVal(c) == (CHOOSE i \in 1..16 : HexLower[i] = c \/ HexUpper[i] = c) - 1

\* hex::decode: Err on an odd length or a non-hex character; both cases of
\* the letters a-f are accepted
RECURSIVE hex_bytes(_)
hex_bytes(s) ==
    IF s = <<>> THEN <<>>
    ELSE << 16 * HexVal(s[1]) + HexVal(s[2]) >> \o hex_bytes(SubSeq(s, 3, Len(s)))

hex_decode(s) ==
    IF Len(s) % 2 = 1 \/ \E i \in 1..Len(s) : ~IsHexDigit(s[i])
    THEN [ok |-> FALSE, bytes |-> <<>>]
    ELSE [ok |-> TRUE, bytes |-> hex_bytes(s)]

Sha256Prefix == <<"s","h","a","2","5","6","=">>
Sha1Prefix == <<"s","h","a","1","=">>

\* str::strip_prefix
strip_prefix(s, p) ==
    IF Len(s) >= Len(p) /\ SubSeq(s, 1, Len(p)) = p
    THEN [some |-> TRUE, rest |-> SubSeq(s, Len(p) + 1, Len(s))]
    ELSE [some |-> FALSE, rest |-> <<>>]

NoHeader == [present |-> FALSE, value |-> <<>>]
Header(v) == [present |-> TRUE, value |-> v]

\* the header GitHub sends for a payload signed with key
SignatureHeader(key, payload) ==
    Header(Sha256Prefix \o hex_encode(hmac_sha256(key, payload)))

verify_signature_as_no_mac_check(payload_bytes, header, secret) ==
    IF ~header.present THEN "VerifySignatureFailed"
    ELSE LET sp == strip_prefix(header.value, Sha256Prefix) IN
         IF ~sp.some THEN "VerifySignatureFailed"
         ELSE IF ~hex_decode(sp.rest).ok THEN "VerifySignatureFailed"
         ELSE "Ok"

verify_signature_as_leaky(payload_bytes, header, secret) ==
    IF ~header.present THEN "MissingHeader"
    ELSE LET sp == strip_prefix(header.value, Sha256Prefix) IN
         IF ~sp.some THEN "VerifySignatureFailed"
         ELSE LET dec == hex_decode(sp.rest) IN
              IF ~dec.ok THEN "VerifySignatureFailed"
              ELSE IF dec.bytes # hmac_sha256(secret.key, payload_bytes)
                   THEN "VerifySignatureFailed"
                   ELSE "Ok"

\* "Ok" or the error the function returns
verify_signature(payload_bytes, header, secret) ==
    IF ~header.present THEN "VerifySignatureFailed"
    ELSE LET sp == strip_prefix(header.value, Sha256Prefix) IN
         IF ~sp.some THEN "VerifySignatureFailed"
         ELSE LET dec == hex_decode(sp.rest) IN
              IF ~dec.ok THEN "VerifySignatureFailed"
              ELSE IF dec.bytes # hmac_sha256(secret.key, payload_bytes)
                   THEN "VerifySignatureFailed"
                   ELSE "Ok"

\* SomeError::into_response: the HTTP status of an error
into_response(err) ==
    CASE err \in {"MeilisearchUrlMissing", "MasterKeyMissing",
                  "DefaultSearchApiKeyNotFound", "DefaultAdminApiKeyNotFound",
                  "CustomApiKeyNotFound"} -> 500
      [] err = "DatabaseUrlMissing" -> 500
      [] err = "GithubWebhookSecretMissing" -> 500
      [] err = "Meilisearch" -> 502
      [] err = "QueryFailed" -> 503
      [] err = "CategoryError" -> 400
      [] err = "JsonParseError" -> 400
      [] err = "ArticleParseError" -> 422
      [] err = "MissingHeader" -> 400
      [] err = "InvalidHeader" -> 400
      [] err = "UnsupportedWebhookEvent" -> 400
      [] err = "ArticleNotFound" -> 404
      [] err = "VerifySignatureFailed" -> 401
      [] err = "MissingRepositoryName" -> 422
      [] err \in {"DecodeBase64", "DecodeUtf8"} -> 400
      [] err = "Other" -> 500
----------------------------------------------------------------------------
(* Repository content, articles and the store *)

\* a path is its file name split at the dots: <<"a","md">> is "a.md"
Paths == { <<"a","md">>, <<"b","md">> }
IDs == {"x", "y"}

\* what GithubClient::get_file_content finds at a path
NotFound == [kind |-> "NotFound", id |-> "", body |-> ""]
NoFrontMatter == [kind |-> "NoFrontMatter", id |-> "", body |-> ""]
Document(id, body) == [kind |-> "Document", id |-> id, body |-> body]
FileContents(p) == {NotFound, NoFrontMatter} \cup { Document(i, p[1]) : i \in IDs }

Row(path, body, created, updated) ==
    [path |-> path, body |-> body, created_at |-> created, updated_at |-> updated]

NoPath == <<>>

\* the stores the program starts from: any subset of x at a.md, y at b.md
InitialStores ==
    { [i \in S |-> IF i = "x" THEN Row(<<"a","md">>, "a", 0, 0)
                              ELSE Row(<<"b","md">>, "b", 0, 0)] : S \in SUBSET IDs }

RepoImpls == {"sqlx", "contract"}

----------------------------------------------------------------------------
(* Change-set classifier: infrastructure/github/webhook.rs *)

FileChange(path, status, ts) == [file_path |-> path, status |-> status, timestamp |-> ts]

RECURSIVE ChangesOf(_, _, _)
ChangesOf(paths, status, ts) ==
    IF paths = <<>> THEN <<>>
    ELSE <<FileChange(Head(paths), status, ts)>> \o ChangesOf(Tail(paths), status, ts)

\* one pass over the commits, collecting one of the three native lists
RECURSIVE CollectChanges(_, _)
CollectChanges(commits, status) ==
    IF commits = <<>> THEN <<>>
    ELSE LET c == Head(commits)
             l == CASE status = "added" -> c.added
                    [] status = "removed" -> c.removed
                    [] OTHER -> c.modified
         IN ChangesOf(l, status, c.timestamp) \o CollectChanges(Tail(commits), status)

get_push_file_changes_as_any_kind(event) ==
    IF event.specific = "push"
    THEN [added |-> CollectChanges(event.commits, "added"),
          removed |-> CollectChanges(event.commits, "removed"),
          modified |-> CollectChanges(event.commits, "modified")]
    ELSE [added |-> <<>>, removed |-> <<>>, modified |-> <<>>]

\* (added_files, removed_files, modified_files)
get_push_file_changes(event) ==
    IF event.kind = "push" /\ event.specific = "push"
    THEN [added |-> CollectChanges(event.commits, "added"),
          removed |-> CollectChanges(event.commits, "removed"),
          modified |-> CollectChanges(event.commits, "modified")]
    ELSE [added |-> <<>>, removed |-> <<>>, modified |-> <<>>]

\* Option<String>
Some(v) == [some |-> TRUE, value |-> v]
None == [some |-> FALSE, value |-> ""]

\* WebhookEvent.repository: absent, or an object whose full_name and owner
\* can each be absent
Repository(full_name, owner) ==
    [present |-> TRUE, full_name |-> full_name, owner |-> owner]
NoRepository == [present |-> FALSE, full_name |-> None, owner |-> None]

get_repository_name(event) ==
    IF event.specific \in {"push", "pull_request"}
    THEN IF event.repository.present /\ event.repository.full_name.some
         THEN [ok |-> TRUE, name |-> event.repository.full_name.value, err |-> ""]
         ELSE [ok |-> FALSE, name |-> "", err |-> "MissingRepositoryName"]
    ELSE [ok |-> FALSE, name |-> "", err |-> "UnsupportedWebhookEvent"]

get_repository_owner(event) ==
    IF event.specific \in {"push", "pull_request"}
    THEN IF event.repository.present /\ event.repository.owner.some
         THEN [ok |-> TRUE, login |-> event.repository.owner.value, err |-> ""]
         ELSE [ok |-> FALSE, login |-> "", err |-> "MissingRepositoryName"]
    ELSE [ok |-> FALSE, login |-> "", err |-> "UnsupportedWebhookEvent"]

----------------------------------------------------------------------------
(* ArticleService: application/article_service.rs *)

\* Path::extension: the part after the last dot of the file name, none when
\* there is no dot or the only dot starts the name
extension(p) ==
    IF Len(p) >= 2 /\ ~(Len(p) = 2 /\ p[1] = "")
    THEN [some |-> TRUE, ext |-> p[Len(p)]]
    ELSE [some |-> FALSE, ext |-> ""]

is_valid_file(file_path) ==
    LET e == extension(file_path) IN e.some /\ e.ext \in {"md", "mdx"}

RECURSIVE retain_valid(_)
retain_valid(list) ==
    IF list = <<>> THEN <<>>
    ELSE (IF is_valid_file(Head(list).file_path) THEN <<Head(list)>> ELSE <<>>)
         \o retain_valid(Tail(list))

\* GithubClient::get_file_content: Ok(text) or Err
get_file_content(fs, path) ==
    IF fs[path].kind = "NotFound"
    THEN [ok |-> FALSE, content |-> NotFound]
    ELSE [ok |-> TRUE, content |-> fs[path]]

\* GithubClient::fetch_files: one (timestamp, Result<content>) per change,
\* in the order of the changes
fetch_files(fs, changes) ==
    [i \in 1..Len(changes) |->
        [timestamp |-> changes[i].timestamp,
         result |-> get_file_content(fs, changes[i].file_path)]]

\* Ok((front matter, body)) or Err
extract_article(content) ==
    IF content.kind = "Document"
    THEN [ok |-> TRUE, id |-> content.id, body |-> content.body]
    ELSE [ok |-> FALSE, id |-> "", body |-> ""]

Article(id, body, created, updated) ==
    [id |-> id, body |-> body, created_at |-> created, updated_at |-> updated]

SeqIds(articles) == { articles[i].id : i \in 1..Len(articles) }
Count(id, articles) == Cardinality({ i \in 1..Len(articles) : articles[i].id = id })

\* ArticleRepository::update_by_path for one article: insert or replace by
\* id; an existing row keeps its created_at and, since the service passes no
\* path, its path
upsert_row(store, a) ==
    [i \in DOMAIN store \cup {a.id} |->
        IF i = a.id
        THEN IF a.id \in DOMAIN store
             THEN Row(store[a.id].path, a.body, store[a.id].created_at, a.updated_at)
             ELSE Row(NoPath, a.body, a.created_at, a.updated_at)
        ELSE store[i]]

RECURSIVE update_by_path(_, _)
update_by_path(store, articles) ==
    IF articles = <<>> THEN store
    ELSE update_by_path(upsert_row(store, Head(articles)), Tail(articles))

\* ArticleRepository::get_all_metadata: the (id, path) pairs of the store
get_all_metadata(store) == { <<i, store[i].path>> : i \in DOMAIN store }

\* the orders in which a HashMap that holds S is iterated: any of them
IterationOrders(S) ==
    { s \in [1..Cardinality(S) -> S] :
        \A i, j \in 1..Cardinality(S) : i # j => s[i] # s[j] }

\* times are unix times counted in whole days; time::OffsetDateTime holds
\* the years -9999 to 9999, the days FirstDay to LastDay
FirstDay == -4371587
LastDay == 2932896

\* OffsetDateTime::from_unix_timestamp: Err outside the range
from_unix_timestamp(timestamp) ==
    IF FirstDay <= timestamp /\ timestamp <= LastDay
    THEN [ok |-> TRUE, value |-> timestamp]
    ELSE [ok |-> FALSE, value |-> 0]

\* .unwrap_or_else(|_| OffsetDateTime::now_utc()), at time t
unwrap_or_else_now_utc(result, t) == IF result.ok THEN result.value ELSE t

\* the Article built for a modified file (lines 334-347): updated_at is the
\* commit timestamp, or the time of processing when OffsetDateTime cannot
\* hold it
modified_article(info, timestamp, t) ==
    Article(info.id, info.body, t,
            unwrap_or_else_now_utc(from_unix_timestamp(timestamp), t))

\* the loop of process_modified_files over the fetched contents: a failed
\* fetch is skipped, a front matter that does not parse returns Err
RECURSIVE BuildModified_as_fetch_aborts(_, _)
BuildModified_as_fetch_aborts(contents, t) ==
    IF contents = <<>> THEN [ok |-> TRUE, articles |-> <<>>]
    ELSE LET h == Head(contents) IN
         IF ~h.result.ok THEN [ok |-> FALSE, articles |-> <<>>]
         ELSE LET e == extract_article(h.result.content) IN
              IF ~e.ok THEN [ok |-> FALSE, articles |-> <<>>]
              ELSE LET r == BuildModified_as_fetch_aborts(Tail(contents), t) IN
                   IF ~r.ok THEN r
                   ELSE [ok |-> TRUE,
                         articles |-> <<modified_article(e, h.timestamp, t)>> \o r.articles]

RECURSIVE BuildModified(_, _)
BuildModified(contents, t) ==
    IF contents = <<>> THEN [ok |-> TRUE, articles |-> <<>>]
    ELSE LET h == Head(contents) IN
         IF ~h.result.ok THEN BuildModified(Tail(contents), t)
         ELSE LET e == extract_article(h.result.content) IN
              IF ~e.ok THEN [ok |-> FALSE, articles |-> <<>>]
              ELSE LET r == BuildModified(Tail(contents), t) IN
                   IF ~r.ok THEN r
                   ELSE [ok |-> TRUE,
                         articles |-> <<modified_article(e, h.timestamp, t)>> \o r.articles]

FetchedPaths(changes) == { changes[i].file_path : i \in 1..Len(changes) }
\* the loop of process_added_and_removed_event over the fetched added files
RECURSIVE BuildAdded(_, _, _)
BuildAdded(contents, db_ids, t) ==
    IF contents = <<>>
    THEN [ok |-> TRUE, add |-> <<>>, update |-> <<>>, updated_article_uuids |-> {}]
    ELSE LET h == Head(contents) IN
         IF ~h.result.ok THEN BuildAdded(Tail(contents), db_ids, t)
         ELSE LET e == extract_article(h.result.content) IN
              IF ~e.ok
              THEN [ok |-> FALSE, add |-> <<>>, update |-> <<>>,
                    updated_article_uuids |-> {}]
              ELSE LET r == BuildAdded(Tail(contents), db_ids, t)
                       timestamp ==
                           unwrap_or_else_now_utc(from_unix_timestamp(h.timestamp), t)
                   IN
                   IF ~r.ok THEN r
                   ELSE IF e.id \in db_ids
                        THEN [r EXCEPT
                                !.update = <<Article(e.id, e.body, t, timestamp)>> \o @,
                                !.updated_article_uuids = @ \cup {e.id}]
                        ELSE [r EXCEPT
                                !.add = <<Article(e.id, e.body, timestamp, timestamp)>>
                                        \o @]

\* lines 256-260: the ids of db_id_to_path, in the order the map is iterated,
\* that no added file carried; the removed files are not looked at
RECURSIVE remove_list_as_per_removed_change(_, _, _)
remove_list_as_per_removed_change(db_id_to_path, updated_article_uuids, removed) ==
    IF removed = <<>> THEN <<>>
    ELSE LET at == SelectSeq(db_id_to_path,
                             LAMBDA e : /\ e[2] = Head(removed).file_path
                                        /\ e[1] \notin updated_article_uuids)
         IN [i \in 1..Len(at) |-> at[i][1]]
            \o remove_list_as_per_removed_change(db_id_to_path, updated_article_uuids,
                                                 Tail(removed))

RECURSIVE remove_list(_, _, _)
remove_list(db_id_to_path, updated_article_uuids, removed) ==
    IF db_id_to_path = <<>> THEN <<>>
    ELSE (IF Head(db_id_to_path)[1] \notin updated_article_uuids
          THEN <<Head(db_id_to_path)[1]>> ELSE <<>>)
         \o remove_list(Tail(db_id_to_path), updated_article_uuids, removed)

\* todo!()
process_added_files(articles) == "Panic"

\* a stub that returns Ok(())
process_removed_files(uuid) == "Ok"

NoSets == [add |-> <<>>, update |-> <<>>, remove |-> <<>>]

\* ArticleRepository::find_optional_by_id: Ok(Some), Ok(None), or Err when
\* the query fails
find_optional_by_id(store, id, fails) ==
    IF fails THEN "Err"
    ELSE IF id \in DOMAIN store THEN "Some" ELSE "None"

is_valid_id_as_error_is_taken(store, id, fails) ==
    find_optional_by_id(store, id, fails) = "None"

is_valid_id(store, id, fails) ==
    CASE find_optional_by_id(store, id, fails) = "Some" -> FALSE
      [] find_optional_by_id(store, id, fails) = "None" -> TRUE
      [] OTHER -> TRUE
----------------------------------------------------------------------------
(* Requests, events and the webhook tasks *)

NoEventHeader == [present |-> FALSE, value |-> ""]
EventHeader(v) == [present |-> TRUE, value |-> v]

AllowedRepo == "o/r"
OtherRepo == "o/x"
Owner == "o"

\* an HTTP request: the raw body by number, the two headers, and what the
\* body holds when it is parsed
Request(bytes, signature, event, shape, repository, commits) ==
    [bytes |-> bytes, signature |-> signature, event |-> event, shape |-> shape,
     repository |-> repository, commits |-> commits]

NoRequest == Request(0, NoHeader, NoEventHeader, "garbage", NoRepository, <<>>)

Event(kind, specific, repository, commits) ==
    [kind |-> kind, specific |-> specific, repository |-> repository,
     commits |-> commits]

NoEvent == Event("", "", NoRepository, <<>>)

\* WebhookEvent::try_from_header_and_body: the body must be JSON and hold
\* the fields that the payload of the announced event requires. Every field
\* of the ping payload is optional, so any JSON object parses as a ping. The
\* payload is read as the announced event, whatever else the body holds, and
\* the repository is read from the body
try_from_header_and_body(event_type, body) ==
    IF body.shape # "garbage" /\ (event_type = "ping" \/ body.shape = event_type)
    THEN [ok |-> TRUE,
          event |-> Event(event_type, event_type, body.repository,
                          IF body.shape = event_type THEN body.commits ELSE <<>>)]
    ELSE [ok |-> FALSE, event |-> NoEvent]

\* the names of the webhook tasks, in the order in which they are started
TaskSlots == <<"t1", "t2">>
Tasks == { TaskSlots[i] : i \in 1..Len(TaskSlots) }

\* a webhook task. pc: "idle", "lock" (waiting for the read lock), "check"
\* (holding it), "fetch_modified" (awaiting the contents of the modified
\* files), "write_modified" (awaiting update_by_path), "read_store" (awaiting
\* get_all_metadata), "fetch_added" (awaiting the contents of the added
\* files) or "done". status 0 with pc "done": the task panicked and wrote no
\* response. phase: "none", "push" (process_push_event entered), "modified"
\* (modified contents fetched), "added" (update_by_path returned), "sets"
\* (add, update and remove complete). checked: the allowed set the
\* membership test saw; base and after: the store update_by_path was
\* applied to and the store it left; meta: what get_all_metadata returned
NoTask ==
    [pc |-> "idle", req |-> NoRequest, event |-> NoEvent, status |-> 0, text |-> "",
     verified |-> FALSE, parsed |-> FALSE, called |-> FALSE, outcome |-> "",
     phase |-> "none", tested |-> FALSE, checked |-> {}, fetched |-> {},
     modArticles |-> <<>>, wrote |-> FALSE, base |-> <<>>, after |-> <<>>,
     meta |-> {}, sets |-> NoSets]

----------------------------------------------------------------------------
(* The HTTP handler and the service, from one await to the next:
   interfaces/http/handlers/webhook.rs, application/article_service.rs *)

\* an error leaves github_webhook through `?` and becomes the response
reject(task, err) ==
    [task EXCEPT !.pc = "done", !.status = into_response(err), !.text = "error"]

\* process_github_webhook_event is over: Ok and Err are answered alike, a
\* panic ends the task without a response
respond(task, result) ==
    [task EXCEPT !.pc = "done", !.outcome = result,
                 !.status = IF result = "Panic" THEN 0 ELSE 200,
                 !.text = IF result = "Panic" THEN "" ELSE "Webhook received"]

receive_as_header_optional(request) ==
    LET task == [NoTask EXCEPT !.req = request]
        v == verify_signature(request.bytes, request.signature, Secret)
    IN IF v # "Ok" THEN reject(task, v)
       ELSE LET event_type == IF request.event.present THEN request.event.value
                              ELSE request.shape
                parsed == try_from_header_and_body(event_type, request)
            IN IF ~parsed.ok
               THEN reject([task EXCEPT !.verified = TRUE], "JsonParseError")
               ELSE LET called == [task EXCEPT !.verified = TRUE, !.parsed = TRUE,
                                               !.called = TRUE,
                                               !.event = parsed.event]
                    IN IF ~get_repository_name(parsed.event).ok
                       THEN respond(called, "Err")
                       ELSE [called EXCEPT !.pc = "lock"]

\* github_webhook up to the call of the service, and the service up to
\* allowed_repositories.read().await
receive(request) ==
    LET task == [NoTask EXCEPT !.req = request]
        v == verify_signature(request.bytes, request.signature, Secret)
    IN IF v # "Ok" THEN reject(task, v)
       ELSE IF ~request.event.present
       THEN reject([task EXCEPT !.verified = TRUE], "MissingHeader")
       ELSE LET parsed == try_from_header_and_body(request.event.value, request)
            IN IF ~parsed.ok
               THEN reject([task EXCEPT !.verified = TRUE], "JsonParseError")
               ELSE LET called == [task EXCEPT !.verified = TRUE, !.parsed = TRUE,
                                               !.called = TRUE,
                                               !.event = parsed.event]
                    IN IF ~get_repository_name(parsed.event).ok
                       THEN respond(called, "Err")
                       ELSE [called EXCEPT !.pc = "lock"]

NoLock == [readers |-> {}, writer |-> FALSE]

\* allowed_repositories.read().await
acquire_read(l, t) == [l EXCEPT !.readers = @ \cup {t}]

\* the end of the if condition of lines 106-112: the read guard is a
\* temporary of the condition and is dropped with it
end_of_condition_as_guard_bound_by_let(l, t) == l

end_of_condition(l, t) == [l EXCEPT !.readers = @ \ {t}]

\* the end of process_github_webhook_event: every local is dropped
end_of_function(l, t) == [l EXCEPT !.readers = @ \ {t}]

\* process_push_event up to fetch_files(..).await of process_modified_files
process_push_event(task) ==
    IF ~get_repository_name(task.event).ok \/ ~get_repository_owner(task.event).ok
    THEN respond([task EXCEPT !.phase = "push"], "Err")
    ELSE [task EXCEPT !.pc = "fetch_modified", !.phase = "push"]

\* lines 106-130: the membership test and the dispatch on the event kind
check_allowed_as_no_allow_list(task, allowedRepos) ==
    LET seen == [task EXCEPT !.tested = TRUE, !.checked = allowedRepos] IN
    IF task.event.kind = "push" THEN process_push_event(seen)
    ELSE respond(seen, "Ok")

check_allowed(task, allowedRepos) ==
    LET seen == [task EXCEPT !.tested = TRUE, !.checked = allowedRepos] IN
    IF get_repository_name(task.event).name \notin allowedRepos
    THEN respond(seen, "Ok")
    ELSE IF task.event.kind = "push" THEN process_push_event(seen)
    ELSE respond(seen, "Ok")

\* process_modified_files from the return of fetch_files to
\* update_by_path(..).await: the articles are built at time t
process_modified_files_fetch(task, fs, t) ==
    LET modified == get_push_file_changes(task.event).modified
        built == BuildModified(fetch_files(fs, modified), t)
        fetched == [task EXCEPT !.phase = "modified",
                                !.fetched = @ \cup FetchedPaths(modified)]
    IN IF ~built.ok THEN respond(fetched, "Err")
       ELSE [fetched EXCEPT !.pc = "write_modified", !.modArticles = built.articles]

\* update_by_path on the store as it is when the call runs, then on to
\* get_all_metadata().await of process_added_and_removed_event
process_modified_files_write(task, impl, store) ==
    IF impl = "sqlx"
    THEN [task |-> respond(task, "Panic"), store |-> store]
    ELSE [task |-> [task EXCEPT !.pc = "read_store", !.phase = "added",
                                !.wrote = task.modArticles # <<>>,
                                !.base = store,
                                !.after = update_by_path(store, task.modArticles)],
          store |-> update_by_path(store, task.modArticles)]

\* get_all_metadata returns, the two maps are filled, and the task awaits
\* the contents of the added files
process_added_and_removed_event_read(task, impl, store) ==
    IF impl = "sqlx" THEN respond(task, "Panic")
    ELSE [task EXCEPT !.pc = "fetch_added", !.meta = get_all_metadata(store)]

\* process_added_and_removed_event from the return of fetch_files to its
\* end; db_id_to_path is the map in the order the loop of lines 256-260
\* iterates it
process_added_and_removed_event_fetch(task, fs, t, db_id_to_path) ==
    LET ch == get_push_file_changes(task.event)
        added == retain_valid(ch.added)
        built == BuildAdded(fetch_files(fs, added), { m[1] : m \in task.meta }, t)
        fetched == [task EXCEPT !.fetched = @ \cup FetchedPaths(added)]
    IN IF ~built.ok THEN respond(fetched, "Err")
       ELSE LET remove == remove_list(db_id_to_path, built.updated_article_uuids,
                                      ch.removed)
                r1 == process_added_files(built.add)
                r2 == process_removed_files(remove)
            IN respond([fetched EXCEPT !.phase = "sets",
                                       !.sets = [add |-> built.add,
                                                 update |-> built.update,
                                                 remove |-> remove]],
                       IF r1 # "Ok" THEN r1 ELSE IF r2 # "Ok" THEN r2 ELSE "Panic")

----------------------------------------------------------------------------
(* The configuration watcher: main.rs *)

\* the watcher: pc is "idle", "write" (configuration loaded, waiting for the
\* write lock) or "assign" (holding it); last is the result of the latest
\* Config::new(), before the set at that moment, busy whether a task was
\* reconciling when the set was last replaced
NoWatcher == [pc |-> "idle", loaded |-> {}, reloads |-> 0, last |-> "",
              before |-> {}, busy |-> FALSE]

\* what Config::new() returns when config.toml changed
ConfigLoads ==
    { [ok |-> FALSE, allowed_repositories |-> {}] }
        \cup { [ok |-> TRUE, allowed_repositories |-> S] :
                   S \in {{AllowedRepo}, {OtherRepo}, {AllowedRepo, OtherRepo}} }

----------------------------------------------------------------------------
(* The search index: infrastructure/search/index.rs,
   ArticleService::create_index and the handler create_search_index *)

\* the index on the Meilisearch server, the tasks the server has enqueued
\* and not yet run, and the call of this program that is changing the index.
\* pc: "idle", "wait_create", "settings", "get_all", "add_documents",
\* "wait_add", "wait_update" or "wait_delete"; caller: "service"
\* (ArticleService::create_index), "handler" (create_search_index) or "item"
\* (one of the two item functions); result: "" while a call runs, then Ok or
\* Err; db_articles: what the call read from the store
NoIndex == [exists |-> FALSE, docs |-> <<>>, queue |-> <<>>, pc |-> "idle",
            caller |-> "", db_articles |-> <<>>, result |-> "", calls |-> 0]

\* add_documents / add_or_replace with primary key id
add_or_replace(docs, articles) ==
    [i \in DOMAIN docs \cup DOMAIN articles |->
        IF i \in DOMAIN articles THEN articles[i] ELSE docs[i]]

delete_document(docs, id) == [i \in DOMAIN docs \ {id} |-> docs[i]]

\* the server runs the task at the head of its queue: creating an index
\* that exists fails and changes nothing; settings and documents sent to an
\* index that does not exist create it
server_run(idx) ==
    LET task == Head(idx.queue)
        rest == [idx EXCEPT !.queue = Tail(@)]
    IN CASE task.op = "create" -> [rest EXCEPT !.exists = TRUE]
         [] task.op = "settings" -> [rest EXCEPT !.exists = TRUE]
         [] task.op = "add" ->
               [rest EXCEPT !.exists = TRUE,
                            !.docs = add_or_replace(@, task.articles)]
         [] task.op = "delete" ->
               [rest EXCEPT !.docs = delete_document(@, task.id)]

\* a request to the server: it fails and the call returns Err, or the
\* server enqueues the task and the call goes on to next
request(idx, task, next, fails) ==
    IF fails THEN [idx EXCEPT !.pc = "idle", !.result = "Err"]
    ELSE [idx EXCEPT !.queue = Append(@, task), !.pc = next]

\* wait_for_completion(..).await?: Err when the wait times out, else on to
\* next; a call that has no next step returns Ok
wait_for_completion(idx, next, timeout) ==
    IF timeout THEN [idx EXCEPT !.pc = "idle", !.result = "Err"]
    ELSE [idx EXCEPT !.pc = next, !.result = IF next = "idle" THEN "Ok" ELSE ""]

\* a call that changes the index starts
start(idx, caller) ==
    [idx EXCEPT !.caller = caller, !.result = "", !.db_articles = <<>>,
                !.calls = @ + 1]

\* SearchService::create_index_client, from one await to the next
create_index_client(idx, fault) ==
    CASE idx.pc = "idle" ->
            request(idx, [op |-> "create"], "wait_create", fault)
      [] idx.pc = "wait_create" ->
            wait_for_completion(idx, "settings", fault)
      [] idx.pc = "settings" ->
            request(idx, [op |-> "settings"], "get_all", fault)

\* ArticleRepository::get_all: every row of the store, as an Article
get_all(store) ==
    [i \in DOMAIN store |->
        Article(i, store[i].body, store[i].created_at, store[i].updated_at)]

\* create_index after create_index_client returned Ok, from one await to
\* the next
create_index(idx, store, fault) ==
    CASE idx.pc = "get_all" ->
            IF fault THEN [idx EXCEPT !.pc = "idle", !.result = "Err"]
            ELSE [idx EXCEPT !.pc = "add_documents", !.db_articles = get_all(store)]
      [] idx.pc = "add_documents" ->
            request(idx, [op |-> "add", articles |-> idx.db_articles], "wait_add",
                    fault)
      [] idx.pc = "wait_add" ->
            wait_for_completion(idx, "idle", fault)

\* MeiliSearchService::update_or_add_index_item, from one await to the next
update_or_add_index_item(idx, article, fault) ==
    IF idx.pc = "idle"
    THEN request(idx, [op |-> "add", articles |-> [i \in {article.id} |-> article]],
                 "wait_update", fault)
    ELSE wait_for_completion(idx, "idle", fault)

\* MeiliSearchService::delete_index_item, from one await to the next
delete_index_item(idx, article, fault) ==
    IF idx.pc = "idle"
    THEN request(idx, [op |-> "delete", id |-> article.id], "wait_delete", fault)
    ELSE wait_for_completion(idx, "idle", fault)

\* the handler create_search_index, from one await to the next: the same
\* calls, with the articles read by a query on the pool
create_search_index(idx, store, fault) ==
    CASE idx.pc = "idle" ->
            request(idx, [op |-> "create"], "wait_create", fault)
      [] idx.pc = "wait_create" ->
            wait_for_completion(idx, "settings", fault)
      [] idx.pc = "settings" ->
            request(idx, [op |-> "settings"], "get_all", fault)
      [] idx.pc = "get_all" ->
            IF fault THEN [idx EXCEPT !.pc = "idle", !.result = "Err"]
            ELSE [idx EXCEPT !.pc = "add_documents", !.db_articles = get_all(store)]
      [] idx.pc = "add_documents" ->
            request(idx, [op |-> "add", articles |-> idx.db_articles], "wait_add",
                    fault)
      [] idx.pc = "wait_add" ->
            wait_for_completion(idx, "idle", fault)

----------------------------------------------------------------------------
(* The transactional guard: domain/repositories.rs *)

NoCall == [op |-> "none", ok |-> TRUE, articles |-> <<>>, ids |-> {},
           fails |-> FALSE, was |-> "none"]

\* the unit of work behind a guard: state is "none" before begin, "open"
\* while every staging call succeeded, "failed" once one returned Err, then
\* "committed", "aborted" (commit returned Err) or "dropped"; staged is the
\* store as the unit of work sees it, base the store at begin, prev the
\* staged store before the latest call, erred whether a call returned Err
NoOps == [state |-> "none", staged |-> <<>>, base |-> <<>>, prev |-> <<>>,
          calls |-> 0, call |-> NoCall, erred |-> FALSE]

NoGuard == [inner |-> NoOps]

\* ArticleRepository::begin_transaction
begin_transaction(store) ==
    [inner |-> [state |-> "open", staged |-> store, base |-> store, prev |-> store,
                calls |-> 0, call |-> NoCall, erred |-> FALSE]]

\* TransactionOps::insert_batch: the articles are upserted into the unit of
\* work one by one; the call fails after k of them when k < Len(articles)
TransactionOps_insert_batch_as_failure_kept_open(inner, articles, k) ==
    LET ok == inner.state = "open" /\ k = Len(articles) IN
    [inner EXCEPT
        !.staged = IF inner.state = "open"
                   THEN update_by_path(@, SubSeq(articles, 1, k)) ELSE @,
        !.prev = inner.staged,
        !.calls = @ + 1,
        !.erred = @ \/ ~ok,
        !.call = [op |-> "insert", ok |-> ok, articles |-> articles, ids |-> {},
                  fails |-> k < Len(articles), was |-> inner.state]]

TransactionOps_insert_batch(inner, articles, k) ==
    LET ok == inner.state = "open" /\ k = Len(articles) IN
    [inner EXCEPT
        !.state = IF inner.state = "open" /\ ~ok THEN "failed" ELSE @,
        !.staged = IF inner.state = "open"
                   THEN update_by_path(@, SubSeq(articles, 1, k)) ELSE @,
        !.prev = inner.staged,
        !.calls = @ + 1,
        !.erred = @ \/ ~ok,
        !.call = [op |-> "insert", ok |-> ok, articles |-> articles, ids |-> {},
                  fails |-> k < Len(articles), was |-> inner.state]]

\* TransactionOps::delete_batch: bulk removal by id; an id that is not
\* stored is skipped
TransactionOps_delete_batch_as_missing_id_is_error(inner, ids, fails) ==
    LET ok == inner.state = "open" /\ ~fails /\ ids \subseteq DOMAIN inner.staged IN
    [inner EXCEPT
        !.state = IF inner.state = "open" /\ ~ok THEN "failed" ELSE @,
        !.staged = IF ok THEN [i \in DOMAIN inner.staged \ ids |-> inner.staged[i]]
                   ELSE @,
        !.prev = inner.staged,
        !.calls = @ + 1,
        !.erred = @ \/ ~ok,
        !.call = [op |-> "delete", ok |-> ok, articles |-> <<>>, ids |-> ids,
                  fails |-> fails, was |-> inner.state]]

TransactionOps_delete_batch(inner, ids, fails) ==
    LET ok == inner.state = "open" /\ ~fails IN
    [inner EXCEPT
        !.state = IF inner.state = "open" /\ ~ok THEN "failed" ELSE @,
        !.staged = IF ok THEN [i \in DOMAIN inner.staged \ ids |-> inner.staged[i]]
                   ELSE @,
        !.prev = inner.staged,
        !.calls = @ + 1,
        !.erred = @ \/ ~ok,
        !.call = [op |-> "delete", ok |-> ok, articles |-> <<>>, ids |-> ids,
                  fails |-> fails, was |-> inner.state]]

\* TransactionOps::commit: the staged store becomes the persisted one, unless
\* a staging call failed before or the commit itself fails
TransactionOps_commit(inner, store, fails) ==
    IF inner.state = "open" /\ ~fails
    THEN [inner |-> [inner EXCEPT !.state = "committed"], store |-> inner.staged]
    ELSE [inner |-> [inner EXCEPT !.state = "aborted", !.erred = TRUE],
          store |-> store]

\* the guard goes out of scope without commit
drop(g, store) ==
    [guard |-> [inner |-> [g.inner EXCEPT !.state = "dropped"]], store |-> store]

\* TransactionGuard::insert_batch
insert_batch(g, articles, k) ==
    [inner |-> TransactionOps_insert_batch(g.inner, articles, k)]

\* TransactionGuard::delete_batch
delete_batch(g, ids, fails) ==
    [inner |-> TransactionOps_delete_batch(g.inner, ids, fails)]

\* TransactionGuard::commit
commit_as_not_delegating(g, store, fails) ==
    [guard |-> [inner |-> [g.inner EXCEPT !.state = "committed"]], store |-> store]

commit(g, store, fails) ==
    LET r == TransactionOps_commit(g.inner, store, fails)
    IN [guard |-> [inner |-> r.inner], store |-> r.store]
----------------------------------------------------------------------------
(* Inputs *)

Kinds == {"added", "removed", "modified"}

\* a commit that lists one path in one of its three lists
Commit(kind, path, ts) ==
    [added |-> IF kind = "added" THEN <<path>> ELSE <<>>,
     removed |-> IF kind = "removed" THEN <<path>> ELSE <<>>,
     modified |-> IF kind = "modified" THEN <<path>> ELSE <<>>,
     timestamp |-> ts]

\* the pushes of at most n commits; commit i carries timestamp i
PushesUpTo(n) ==
    UNION { { [i \in 1..k |-> Commit(f[i][1], f[i][2], i)] :
                f \in [1..k -> Kinds \X Paths] } : k \in 0..n }

FullRepository(name) == Repository(Some(name), Some(Owner))

\* the repository objects a payload can carry
Repositories ==
    { FullRepository(AllowedRepo), FullRepository(OtherRepo),
      Repository(None, Some(Owner)), Repository(Some(AllowedRepo), None),
      NoRepository }

\* correctly signed push deliveries for the allowed repository
PushRequests ==
    { Request(0, SignatureHeader(Secret.key, 0), EventHeader("push"), "push",
              FullRepository(AllowedRepo), c) : c \in PushesUpTo(MaxChanges) }

\* the commits of the requests that test the gates of the handler
GatePushes == { <<>>, << Commit("modified", <<"a","md">>, 1) >> }

\* every combination of signature, event header, body shape and repository
GateRequests ==
    { Request(0, s, e, sh, r, c) :
        s \in {NoHeader, SignatureHeader(Secret.key, 0), SignatureHeader(1, 0),
               SignatureHeader(Secret.key, 1)},
        e \in {NoEventHeader, EventHeader("push"), EventHeader("pull_request"),
               EventHeader("ping")},
        sh \in {"garbage", "push", "pull_request", "ping"},
        r \in Repositories,
        c \in GatePushes }

\* pushes of one commit whose timestamp OffsetDateTime cannot hold: the
\* first day of the year 10000, or the last day of the year -10000
FarPushes ==
    { << Commit(k, p, ts) >> :
        k \in {"modified", "added"}, p \in Paths, ts \in {LastDay + 1, FirstDay - 1} }

FarRequests ==
    { Request(0, SignatureHeader(Secret.key, 0), EventHeader("push"), "push",
              FullRepository(AllowedRepo), c) : c \in FarPushes }

Requests == PushRequests \cup GateRequests \cup FarRequests

HexAlphabet == {"a", "b", "A", "g"}

SeqsUpTo(S, n) == UNION { [1..k -> S] : k \in 0..n }

SignatureValues ==
    { pfx \o h : pfx \in {Sha256Prefix, Sha1Prefix, <<>>},
                 h \in SeqsUpTo(HexAlphabet, MaxHexLen) }

SigInputs ==
    { [payload |-> b, header |-> h, secret |-> [key |-> k]] :
        b \in Payloads, k \in Keys,
        h \in {NoHeader} \cup { Header(v) : v \in SignatureValues } }

\* paths of the repository that are not content files
OtherPaths == { <<"c","txt">>, <<"d">> }
AllPaths == Paths \cup OtherPaths

\* the pushes of at most n commits over any path of the repository
AnyPushesUpTo(n) ==
    UNION { { [i \in 1..k |-> Commit(f[i][1], f[i][2], i)] :
                f \in [1..k -> Kinds \X AllPaths] } : k \in 0..n }

NoChanges == [called |-> FALSE, added |-> <<>>, removed |-> <<>>, modified |-> <<>>]

\* events handed to get_push_file_changes: the kind the header announced
\* and the payload that was parsed
ClsEvents ==
    { Event(ks[1], ks[2], FullRepository(AllowedRepo), c) :
        ks \in { <<"push","push">>, <<"pull_request","pull_request">>,
                 <<"ping","ping">>, <<"push","ping">>, <<"ping","push">> },
        c \in AnyPushesUpTo(MaxCommits) }

\* correctly signed deliveries for the allowed repository, of a push or of
\* another event, whose commits list any path
AnyRequests ==
    { Request(0, SignatureHeader(Secret.key, 0), EventHeader(e), e,
              FullRepository(AllowedRepo), c) :
        e \in {"push", "pull_request"}, c \in AnyPushesUpTo(MaxCommits) }

\* articles handed to insert_batch, and the ids handed to delete_batch
TxIDs == {"x", "z"}
TxArticles == { Article(i, "n", 20, 21) : i \in TxIDs }
Batches == SeqsUpTo(TxArticles, MaxBatch)

\* the ids asked of is_valid_id
LookupIDs == IDs \cup {"z"}

NoIdCall == [called |-> FALSE, id |-> "", fails |-> FALSE, stored |-> {},
             valid |-> FALSE]

NoSigInput == [payload |-> 0, header |-> NoHeader, secret |-> Secret]

\* correctly signed deliveries for the allowed repository: each event
\* header, or none, over each body, but for the push that is well formed
HeaderBodyRequests ==
    { Request(0, SignatureHeader(Secret.key, 0), e, sh, FullRepository(AllowedRepo),
              << Commit("modified", <<"a","md">>, 1) >>) :
        e \in {NoEventHeader, EventHeader("push"), EventHeader("pull_request"),
               EventHeader("ping")},
        sh \in {"garbage", "push", "pull_request", "ping"} }
      \ { Request(0, SignatureHeader(Secret.key, 0), EventHeader("push"), "push",
                  FullRepository(AllowedRepo),
                  << Commit("modified", <<"a","md">>, 1) >>) }

\* the deliveries that run side by side with the watcher
TaskRequests ==
    HeaderBodyRequests \cup
    { Request(0, SignatureHeader(Secret.key, 0), EventHeader("push"), "push",
              FullRepository(AllowedRepo),
              << Commit("modified", <<"a","md">>, 1), Commit("added", <<"b","md">>, 2) >>),
      Request(0, SignatureHeader(Secret.key, 0), EventHeader("push"), "push",
              FullRepository(AllowedRepo),
              << Commit("removed", <<"a","md">>, 1), Commit("added", <<"b","md">>, 2) >>),
      Request(0, SignatureHeader(Secret.key, 0), EventHeader("push"), "push",
              FullRepository(OtherRepo), << Commit("modified", <<"a","md">>, 1) >>),
      Request(0, SignatureHeader(Secret.key, 0), EventHeader("pull_request"),
              "pull_request", FullRepository(AllowedRepo), <<>>),
      Request(0, SignatureHeader(1, 0), EventHeader("push"), "push",
              FullRepository(AllowedRepo), << Commit("modified", <<"a","md">>, 1) >>) }

\* the articles handed to the two item functions of the index
IndexArticles == { Article(i, "n", 20, 21) : i \in IDs }

----------------------------------------------------------------------------
(* The steps of a webhook task, shared by every specification *)

\* the state all specifications start from, but for the inputs they choose
Quiet ==
    /\ allowed = {AllowedRepo}
    /\ db0 = db
    /\ now = 10
    /\ delivered = 0
    /\ sigOut = ""
    /\ guard = NoGuard
    /\ clsIn = NoEvent
    /\ clsOut = NoChanges
    /\ tasks = [t \in Tasks |-> NoTask]
    /\ lock = NoLock
    /\ watcher = NoWatcher
    /\ index = NoIndex
    /\ idCall = NoIdCall

TaskFrame == UNCHANGED <<repoImpl, files, db0, sigIn, sigOut, guard, clsIn, clsOut,
                         idCall>>

\* t is the first slot that was never used
Idle(t) ==
    \E i \in 1..Len(TaskSlots) :
        /\ TaskSlots[i] = t
        /\ tasks[t].pc = "idle"
        /\ \A j \in 1..(i - 1) : tasks[TaskSlots[j]].pc # "idle"

Reconciling ==
    \E t \in Tasks :
        tasks[t].pc \in {"fetch_modified", "write_modified", "read_store", "fetch_added"}

\* the request r arrives at POST /webhook/github and axum runs github_webhook
\* for it as task t, up to its first suspension
Arrive(t, r) ==
    /\ tasks' = [tasks EXCEPT ![t] = receive(r)]
    /\ delivered' = delivered + 1
    /\ now' = now + 1
    /\ UNCHANGED <<allowed, db, lock, watcher, index>>
    /\ TaskFrame

\* the task gets the read lock
AcquireRead(t) ==
    /\ tasks[t].pc = "lock"
    /\ ~lock.writer
    /\ lock' = acquire_read(lock, t)
    /\ tasks' = [tasks EXCEPT ![t].pc = "check"]
    /\ UNCHANGED <<allowed, db, watcher, index, now, delivered>>
    /\ TaskFrame

\* the membership test is evaluated and its temporaries are dropped; a task
\* that ends here drops all it holds
CheckAllowed(t) ==
    /\ tasks[t].pc = "check"
    /\ tasks' = [tasks EXCEPT ![t] = check_allowed(@, allowed)]
    /\ lock' = IF tasks'[t].pc = "done"
               THEN end_of_function(end_of_condition(lock, t), t)
               ELSE end_of_condition(lock, t)
    /\ UNCHANGED <<allowed, db, watcher, index, now, delivered>>
    /\ TaskFrame

\* fetch_files of the modified files returns and the articles are built
FetchModified(t) ==
    /\ tasks[t].pc = "fetch_modified"
    /\ tasks' = [tasks EXCEPT ![t] = process_modified_files_fetch(@, files, now)]
    /\ lock' = IF tasks'[t].pc = "done" THEN end_of_function(lock, t) ELSE lock
    /\ UNCHANGED <<allowed, db, watcher, index, now, delivered>>
    /\ TaskFrame

\* update_by_path runs on the store as it is now
WriteModified(t) ==
    /\ tasks[t].pc = "write_modified"
    /\ tasks' = [tasks EXCEPT ![t] = process_modified_files_write(@, repoImpl, db).task]
    /\ db' = process_modified_files_write(tasks[t], repoImpl, db).store
    /\ lock' = IF tasks'[t].pc = "done" THEN end_of_function(lock, t) ELSE lock
    /\ UNCHANGED <<allowed, watcher, index, now, delivered>>
    /\ TaskFrame

\* get_all_metadata reads the store as it is now
ReadMetadata(t) ==
    /\ tasks[t].pc = "read_store"
    /\ tasks' = [tasks EXCEPT ![t] =
                    process_added_and_removed_event_read(@, repoImpl, db)]
    /\ lock' = IF tasks'[t].pc = "done" THEN end_of_function(lock, t) ELSE lock
    /\ UNCHANGED <<allowed, db, watcher, index, now, delivered>>
    /\ TaskFrame

\* fetch_files of the added files returns and the rest of
\* process_added_and_removed_event runs, iterating db_id_to_path in any order
FetchAdded(t) ==
    /\ tasks[t].pc = "fetch_added"
    /\ \E db_id_to_path \in IterationOrders(tasks[t].meta) :
          tasks' = [tasks EXCEPT ![t] =
                       process_added_and_removed_event_fetch(@, files, now,
                                                             db_id_to_path)]
    /\ lock' = end_of_function(lock, t)
    /\ UNCHANGED <<allowed, db, watcher, index, now, delivered>>
    /\ TaskFrame

----------------------------------------------------------------------------
(* The webhook endpoint *)

\* a.md carries x or is not found; b.md carries x or y, or has no front
\* matter; the store holds nothing, or x and y
Init ==
    /\ repoImpl \in RepoImpls
    /\ files \in { f \in [Paths -> UNION { FileContents(p) : p \in Paths }] :
                     /\ f[<<"a","md">>] \in {Document("x", "a"), NotFound}
                     /\ f[<<"b","md">>] \in {Document("x", "b"), Document("y", "b"),
                                              NoFrontMatter} }
    /\ db \in { st \in InitialStores : "y" \in DOMAIN st <=> "x" \in DOMAIN st }
    /\ sigIn = NoSigInput
    /\ Quiet

\* a request arrives at POST /webhook/github
Deliver ==
    /\ delivered = 0
    /\ \E t \in Tasks : Idle(t) /\ \E r \in Requests : Arrive(t, r)

\* the sender delivers the same request again, while the first delivery is
\* being handled or after it
Redeliver ==
    /\ delivered >= 1
    /\ \E t \in Tasks :
          /\ Idle(t)
          /\ \E s \in Tasks : tasks[s].pc # "idle" /\ Arrive(t, tasks[s].req)

Next ==
    \/ Deliver
    \/ Redeliver
    \/ \E t \in Tasks : AcquireRead(t)
    \/ \E t \in Tasks : CheckAllowed(t)
    \/ \E t \in Tasks : FetchModified(t)
    \/ \E t \in Tasks : WriteModified(t)
    \/ \E t \in Tasks : ReadMetadata(t)
    \/ \E t \in Tasks : FetchAdded(t)

Spec == Init /\ [][Next]_vars

----------------------------------------------------------------------------
(* verify_signature called on its own *)

InitSig ==
    /\ repoImpl = "contract"
    /\ files = [p \in Paths |-> NotFound]
    /\ db = [i \in {} |-> Row(NoPath, "", 0, 0)]
    /\ sigIn \in SigInputs
    /\ Quiet

VerifyCall ==
    /\ sigOut = ""
    /\ sigOut' = verify_signature(sigIn.payload, sigIn.header, sigIn.secret)
    /\ UNCHANGED <<repoImpl, files, allowed, db, db0, now, delivered,
                   sigIn, guard, clsIn, clsOut,
                   tasks, lock, watcher, index, idCall>>

NextSig == VerifyCall

SpecSig == InitSig /\ [][NextSig]_vars

----------------------------------------------------------------------------
(* A unit of work on the store *)

InitTx ==
    /\ repoImpl = "contract"
    /\ files = [p \in Paths |-> NotFound]
    /\ db \in { st \in InitialStores : "x" \in DOMAIN st }
    /\ sigIn = NoSigInput
    /\ Quiet

TxFrame == UNCHANGED <<repoImpl, files, allowed, db0, now, delivered,
                       sigIn, sigOut, clsIn, clsOut,
                       tasks, lock, watcher, index, idCall>>

Staging == guard.inner.state \in {"open", "failed"}

Begin ==
    /\ guard.inner.state = "none"
    /\ guard' = begin_transaction(db)
    /\ UNCHANGED db
    /\ TxFrame

InsertBatch ==
    /\ Staging
    /\ guard.inner.calls < MaxStaging
    /\ \E articles \in Batches : \E k \in 0..Len(articles) :
          guard' = insert_batch(guard, articles, k)
    /\ UNCHANGED db
    /\ TxFrame

DeleteBatch ==
    /\ Staging
    /\ guard.inner.calls < MaxStaging
    /\ \E ids \in SUBSET TxIDs : \E fails \in BOOLEAN :
          guard' = delete_batch(guard, ids, fails)
    /\ UNCHANGED db
    /\ TxFrame

CommitGuard ==
    /\ Staging
    /\ \E fails \in BOOLEAN :
          /\ guard' = commit(guard, db, fails).guard
          /\ db' = commit(guard, db, fails).store
    /\ TxFrame

DropGuard ==
    /\ Staging
    /\ guard' = drop(guard, db).guard
    /\ db' = drop(guard, db).store
    /\ TxFrame

\* is_valid_id is called, outside any guard
IsValidIdCall ==
    /\ ~idCall.called
    /\ \E id \in LookupIDs : \E fails \in BOOLEAN :
          idCall' = [called |-> TRUE, id |-> id, fails |-> fails,
                     stored |-> DOMAIN db,
                     valid |-> is_valid_id(db, id, fails)]
    /\ UNCHANGED <<db, guard>>
    /\ UNCHANGED <<repoImpl, files, allowed, db0, now, delivered,
                   sigIn, sigOut, clsIn, clsOut,
                   tasks, lock, watcher, index>>

NextTx == Begin \/ InsertBatch \/ DeleteBatch \/ CommitGuard \/ DropGuard
             \/ IsValidIdCall

SpecTx == InitTx /\ [][NextTx]_vars

----------------------------------------------------------------------------
(* The classifier called on its own, and deliveries that list any path *)

InitCls ==
    /\ repoImpl \in RepoImpls
    /\ files \in { f \in [AllPaths -> UNION { FileContents(p) : p \in AllPaths }] :
                     /\ f[<<"a","md">>] = Document("x", "a")
                     /\ f[<<"b","md">>] = Document("y", "b")
                     /\ f[<<"c","txt">>] \in {Document("x", "c"), NotFound}
                     /\ f[<<"d">>] = Document("y", "d") }
    /\ db \in { st \in InitialStores : "y" \notin DOMAIN st }
    /\ sigIn = NoSigInput
    /\ Quiet

\* get_push_file_changes is called on an event
ClassifyCall ==
    /\ ~clsOut.called
    /\ delivered = 0
    /\ \E e \in ClsEvents :
          /\ clsIn' = e
          /\ clsOut' = [called |-> TRUE,
                        added |-> get_push_file_changes(e).added,
                        removed |-> get_push_file_changes(e).removed,
                        modified |-> get_push_file_changes(e).modified]
    /\ UNCHANGED <<repoImpl, files, allowed, db, db0, now, delivered,
                   sigIn, sigOut, guard,
                   tasks, lock, watcher, index, idCall>>

\* a request whose commits list any path arrives at POST /webhook/github
DeliverAny ==
    /\ delivered = 0
    /\ ~clsOut.called
    /\ \E t \in Tasks : Idle(t) /\ \E r \in AnyRequests : Arrive(t, r)

NextCls ==
    \/ ClassifyCall
    \/ DeliverAny
    \/ Redeliver
    \/ \E t \in Tasks : AcquireRead(t)
    \/ \E t \in Tasks : CheckAllowed(t)
    \/ \E t \in Tasks : FetchModified(t)
    \/ \E t \in Tasks : WriteModified(t)
    \/ \E t \in Tasks : ReadMetadata(t)
    \/ \E t \in Tasks : FetchAdded(t)

SpecCls == InitCls /\ [][NextCls]_vars

----------------------------------------------------------------------------
(* Webhook tasks side by side with the configuration watcher *)

InitTasks ==
    /\ repoImpl \in RepoImpls
    /\ files \in { f \in [Paths -> UNION { FileContents(p) : p \in Paths }] :
                     /\ f[<<"a","md">>] = Document("x", "a")
                     /\ f[<<"b","md">>] \in {Document("y", "b"), NoFrontMatter} }
    /\ db = [i \in {"x"} |-> Row(<<"a","md">>, "a", 0, 0)]
    /\ sigIn = NoSigInput
    /\ Quiet

\* a request arrives and a task is spawned for it
Receive(t) ==
    /\ Idle(t)
    /\ \E r \in TaskRequests : Arrive(t, r)

\* config.toml changed: the watcher calls Config::new()
ConfigChanged ==
    /\ watcher.pc = "idle"
    /\ watcher.reloads < MaxReloads
    /\ \E c \in ConfigLoads :
          watcher' = [watcher EXCEPT
                        !.pc = IF c.ok THEN "write" ELSE "idle",
                        !.loaded = c.allowed_repositories,
                        !.reloads = @ + 1,
                        !.last = IF c.ok THEN "Ok" ELSE "Err",
                        !.before = allowed]
    /\ UNCHANGED <<allowed, db, tasks, lock, index, now, delivered>>
    /\ TaskFrame

\* allowed_repositories.write().await
AcquireWrite ==
    /\ watcher.pc = "write"
    /\ lock.readers = {}
    /\ ~lock.writer
    /\ lock' = [lock EXCEPT !.writer = TRUE]
    /\ watcher' = [watcher EXCEPT !.pc = "assign"]
    /\ UNCHANGED <<allowed, db, tasks, index, now, delivered>>
    /\ TaskFrame

\* *config_writer = new_config.allowed_repositories, and the guard is dropped
AssignAllowed ==
    /\ watcher.pc = "assign"
    /\ allowed' = watcher.loaded
    /\ lock' = [lock EXCEPT !.writer = FALSE]
    /\ watcher' = [watcher EXCEPT !.pc = "idle", !.busy = Reconciling]
    /\ UNCHANGED <<db, tasks, index, now, delivered>>
    /\ TaskFrame

NextTasks ==
    \/ \E t \in Tasks : Receive(t)
    \/ \E t \in Tasks : AcquireRead(t)
    \/ \E t \in Tasks : CheckAllowed(t)
    \/ \E t \in Tasks : FetchModified(t)
    \/ \E t \in Tasks : WriteModified(t)
    \/ \E t \in Tasks : ReadMetadata(t)
    \/ \E t \in Tasks : FetchAdded(t)
    \/ ConfigChanged
    \/ AcquireWrite
    \/ AssignAllowed

SpecTasks == InitTasks /\ [][NextTasks]_vars

----------------------------------------------------------------------------
(* A webhook delivery side by side with the calls that change the index *)

IndexFrame == UNCHANGED <<allowed, db, tasks, lock, watcher, now, delivered>>

\* a push arrives
ReceiveOne ==
    /\ delivered = 0
    /\ \E t \in Tasks : Idle(t) /\ \E r \in TaskRequests : Arrive(t, r)

\* ArticleService::create_index is called: it calls create_index_client,
\* which sends the request that creates the index
CreateIndex ==
    /\ index.pc = "idle"
    /\ index.calls < MaxIndexCalls
    /\ \E fails \in BOOLEAN :
          index' = create_index_client(start(index, "service"), fails)
    /\ IndexFrame
    /\ TaskFrame

\* the handler create_search_index is called and sends the request that
\* creates the index
CreateSearchIndex ==
    /\ index.pc = "idle"
    /\ index.calls < MaxIndexCalls
    /\ \E fails \in BOOLEAN :
          index' = create_search_index(start(index, "handler"), db, fails)
    /\ IndexFrame
    /\ TaskFrame

\* the call that builds the index goes on from the await it is suspended at;
\* a wait returns Ok once the server has run the task
ContinueIndex ==
    /\ index.pc \in {"wait_create", "settings", "get_all", "add_documents", "wait_add"}
    /\ \E fault \in BOOLEAN :
          /\ (index.pc \in {"wait_create", "wait_add"} /\ ~fault) => index.queue = <<>>
          /\ index' = IF index.caller = "handler"
                      THEN create_search_index(index, db, fault)
                      ELSE IF index.pc \in {"wait_create", "settings"}
                      THEN create_index_client(index, fault)
                      ELSE create_index(index, db, fault)
    /\ IndexFrame
    /\ TaskFrame

\* update_or_add_index_item is called, and later returns from its wait
UpdateOrAddIndexItem ==
    /\ \/ index.pc = "idle" /\ index.calls < MaxIndexCalls
       \/ index.pc = "wait_update"
    /\ \E article \in IndexArticles : \E fault \in BOOLEAN :
          /\ (index.pc = "wait_update" /\ ~fault) => index.queue = <<>>
          /\ index' = update_or_add_index_item(
                         IF index.pc = "idle" THEN start(index, "item") ELSE index,
                         article, fault)
    /\ IndexFrame
    /\ TaskFrame

\* delete_index_item is called, and later returns from its wait
DeleteIndexItem ==
    /\ \/ index.pc = "idle" /\ index.calls < MaxIndexCalls
       \/ index.pc = "wait_delete"
    /\ \E article \in IndexArticles : \E fault \in BOOLEAN :
          /\ (index.pc = "wait_delete" /\ ~fault) => index.queue = <<>>
          /\ index' = delete_index_item(
                         IF index.pc = "idle" THEN start(index, "item") ELSE index,
                         article, fault)
    /\ IndexFrame
    /\ TaskFrame

\* the Meilisearch server runs the next task of its queue
ServerRun ==
    /\ index.queue # <<>>
    /\ index' = server_run(index)
    /\ IndexFrame
    /\ TaskFrame

NextIndex ==
    \/ ReceiveOne
    \/ \E t \in Tasks : AcquireRead(t)
    \/ \E t \in Tasks : CheckAllowed(t)
    \/ \E t \in Tasks : FetchModified(t)
    \/ \E t \in Tasks : WriteModified(t)
    \/ \E t \in Tasks : ReadMetadata(t)
    \/ \E t \in Tasks : FetchAdded(t)
    \/ CreateIndex
    \/ CreateSearchIndex
    \/ ContinueIndex
    \/ UpdateOrAddIndexItem
    \/ DeleteIndexItem
    \/ ServerRun

SpecIndex == InitTasks /\ [][NextIndex]_vars

----------------------------------------------------------------------------
(* Properties of the webhook endpoint *)

Arrived(t) == tasks[t].pc # "idle"

\* the task has ended: it answered, or it panicked
Handled(t) == tasks[t].pc = "done"

\* the signature header is the one GitHub computes for this body and secret
Genuine(t) ==
    tasks[t].req.signature = SignatureHeader(Secret.key, tasks[t].req.bytes)

\* the body cannot be parsed into an event of the announced type: it is
\* not JSON, or it lacks fields that the announced payload requires (the ping
\* payload requires none)
Unparseable(r) ==
    /\ r.event.present
    /\ \/ r.shape = "garbage"
       \/ r.event.value # "ping" /\ r.shape # r.event.value

\* the request passed all three gates of the handler and was a push for a
\* repository that was allowed when the task tested it, so process_push_event
\* ran, and the task has ended
PushProcessed(t) ==
    /\ Handled(t)
    /\ tasks[t].called
    /\ tasks[t].req.event.value = "push"
    /\ tasks[t].tested
    /\ tasks[t].req.repository.full_name.value \in tasks[t].checked

ListedPaths(t, kind) == FetchedPaths(CollectChanges(tasks[t].req.commits, kind))

\* the commits of the push that list path under kind
ListedAt(t, kind, path) ==
    { k \in 1..Len(tasks[t].req.commits) :
        \E j \in 1..Len(CollectChanges(<<tasks[t].req.commits[k]>>, kind)) :
            CollectChanges(<<tasks[t].req.commits[k]>>, kind)[j].file_path = path }

TimesListed(t, kind, path) == Cardinality(ListedAt(t, kind, path))

\* the files of the push whose content is fetched: modified, and added with
\* a content extension
FetchCandidates(t) ==
    ListedPaths(t, "modified") \cup { p \in ListedPaths(t, "added") : is_valid_file(p) }

Upserts(t) == tasks[t].modArticles \o tasks[t].sets.add \o tasks[t].sets.update
UpsertIds(t) == SeqIds(Upserts(t))
DeleteIds(t) == { tasks[t].sets.remove[i] : i \in 1..Len(tasks[t].sets.remove) }
TimesDeleted(t, id) ==
    Cardinality({ i \in 1..Len(tasks[t].sets.remove) : tasks[t].sets.remove[i] = id })

\* the paths the store held for id when the task read it
StoredPaths(t, id) == { m[2] : m \in { mm \in tasks[t].meta : mm[1] = id } }

BadFrontMatter(p) == files[p].kind = "NoFrontMatter"
Good(p) == files[p].kind = "Document"

\* the content files the push lists as added or modified that carry id
Carriers(t, id) ==
    { q \in ListedPaths(t, "added") \cup ListedPaths(t, "modified") :
        Good(q) /\ files[q].id = id }

\* update_by_path of the task has returned
Written(t) == tasks[t].phase \in {"added", "sets"}

\* C1: a request with a verifying signature, an event header and a body
\* that parses is answered 200 "Webhook received", whatever the processing does
C1_AlwaysAcknowledged ==
    \A t \in Tasks :
        (/\ Handled(t) /\ Genuine(t)
         /\ tasks[t].req.event.present
         /\ ~Unparseable(tasks[t].req))
            => (tasks[t].status = 200 /\ tasks[t].text = "Webhook received")

\* C2: a request whose signature does not verify is answered 401 and goes no
\* further: not parsed, not processed, nothing fetched, nothing written
C2_Unauthenticated ==
    \A t \in Tasks :
        (Arrived(t) /\ ~Genuine(t))
            => /\ Handled(t)
               /\ tasks[t].status = 401
               /\ ~tasks[t].parsed
               /\ ~tasks[t].called
               /\ tasks[t].phase = "none"
               /\ tasks[t].fetched = {}
               /\ ~tasks[t].wrote

C2_Witness ==
    \E t \in Tasks :
        /\ Arrived(t) /\ ~Genuine(t)
        /\ tasks[t].req.signature.present
        /\ tasks[t].req.event.value = "push" /\ tasks[t].req.shape = "push"
        /\ tasks[t].req.repository = FullRepository(AllowedRepo)
        /\ ListedPaths(t, "modified") # {}
        /\ tasks[t].status = 401

\* C5: the IDs a push upserts and the IDs it deletes are disjoint
C5_UpsertDeleteDisjoint ==
    \A t \in Tasks : Handled(t) => UpsertIds(t) \cap DeleteIds(t) = {}

\* id is stored for a removed path and carried by an added file at another path
Renamed(t, id) ==
    \E old \in StoredPaths(t, id) :
        /\ old \in ListedPaths(t, "removed")
        /\ \E p \in ListedPaths(t, "added") :
              /\ p # old
              /\ is_valid_file(p)
              /\ files[p].kind = "Document"
              /\ files[p].id = id

\* C6: a rename inside one push gives exactly one upsert of the ID and no
\* delete of it
C6_RenameIsOneUpsert ==
    \A t \in Tasks :
        (PushProcessed(t) /\ tasks[t].phase = "sets")
            => \A id \in IDs :
                  Renamed(t, id) => (Count(id, Upserts(t)) = 1 /\ id \notin DeleteIds(t))

\* id is stored for a removed path and no added file of the push carries it
GenuinelyRemoved(t, id) ==
    /\ \E old \in StoredPaths(t, id) : old \in ListedPaths(t, "removed")
    /\ ~\E p \in ListedPaths(t, "added") : files[p].kind = "Document" /\ files[p].id = id

\* C7: the ID of a genuinely removed file is in the delete set exactly once,
\* also when several commits of the push list the path as removed
C7_RemovedExactlyOnce ==
    \A t \in Tasks :
        (PushProcessed(t) /\ tasks[t].phase = "sets")
            => \A id \in IDs : GenuinelyRemoved(t, id) => TimesDeleted(t, id) = 1

C7_Witness ==
    \E t \in Tasks :
        /\ PushProcessed(t) /\ tasks[t].phase = "sets"
        /\ \E id \in IDs :
              /\ GenuinelyRemoved(t, id)
              /\ \E old \in StoredPaths(t, id) : TimesListed(t, "removed", old) >= 2
              /\ TimesDeleted(t, id) = 1
        /\ Cardinality(tasks[t].meta) = 2

\* C8: whatever the deliveries of one push do after a delivery has written,
\* the persisted articles stay as that delivery left them, created_at
\* included
C8_RedeliveryIdempotent ==
    \A t \in Tasks : Written(t) => db = tasks[t].after

\* C9: a file whose front matter does not parse does not abort the push:
\* the other files are still reconciled
C9_BadFrontMatterSkipped ==
    \A t \in Tasks :
        (PushProcessed(t) /\ repoImpl = "contract"
           /\ \E p \in FetchCandidates(t) : BadFrontMatter(p))
            => /\ tasks[t].outcome # "Err"
               /\ \A p \in ListedPaths(t, "modified") :
                     Good(p) => files[p].id \in SeqIds(tasks[t].modArticles)
               /\ \A p \in ListedPaths(t, "added") :
                     Good(p) => files[p].id
                                   \in SeqIds(tasks[t].sets.add \o tasks[t].sets.update)

\* C10: when a push is reconciled, a file whose fetch fails is left out of
\* the upsert set and aborts nothing: only a front matter that does not parse
\* makes the reconciliation return Err, and every fetched file is in the
\* vectors built
C10_FetchFailureTolerated ==
    \A t \in Tasks :
        (PushProcessed(t) /\ get_repository_owner(tasks[t].event).ok)
            => /\ tasks[t].outcome = "Err"
                     => \E p \in FetchCandidates(t) : BadFrontMatter(p)
               /\ \A i \in 1..Len(Upserts(t)) :
                     \E p \in FetchCandidates(t) : Good(p) /\ Upserts(t)[i].body = p[1]
               /\ tasks[t].phase \in {"added", "sets"}
                     => \A p \in ListedPaths(t, "modified") :
                           Good(p) => \E i \in 1..Len(tasks[t].modArticles) :
                                         /\ tasks[t].modArticles[i].id = files[p].id
                                         /\ tasks[t].modArticles[i].body = p[1]
               /\ tasks[t].phase = "sets"
                     => \A p \in ListedPaths(t, "added") :
                           Good(p) =>
                              \E i \in 1..Len(tasks[t].sets.add \o tasks[t].sets.update) :
                                 /\ (tasks[t].sets.add \o tasks[t].sets.update)[i].id
                                       = files[p].id
                                 /\ (tasks[t].sets.add \o tasks[t].sets.update)[i].body
                                       = p[1]

C10_Witness ==
    \E t \in Tasks :
        /\ PushProcessed(t) /\ tasks[t].phase = "sets"
        /\ \E p \in FetchCandidates(t) : files[p].kind = "NotFound"
        /\ \E p \in ListedPaths(t, "modified") : Good(p)
        /\ \E p \in ListedPaths(t, "added") : Good(p)
        /\ Len(Upserts(t)) >= 2

\* C13: after a push, every stored ID the push upserted holds the new body,
\* the path of the file it came from and the commit timestamp as updated_at,
\* and keeps the created_at it had before
C13_UpsertReplaces ==
    \A t \in Tasks :
        (PushProcessed(t) /\ repoImpl = "contract" /\ tasks[t].phase = "sets")
            => \A id \in UpsertIds(t) \cap DOMAIN tasks[t].base :
                  /\ id \in DOMAIN db
                  /\ db[id].created_at = tasks[t].base[id].created_at
                  /\ \E i \in 1..Len(Upserts(t)) :
                        /\ Upserts(t)[i].id = id
                        /\ db[id].body = Upserts(t)[i].body
                        /\ db[id].updated_at = Upserts(t)[i].updated_at
                        /\ db[id].path = <<Upserts(t)[i].body, "md">>

\* C14: an added file whose ID is not stored, listed once and by no other
\* file of the push, is stored after the push with created_at and updated_at
\* equal to the timestamp of the commit that added it
C14_NewArticleInserted ==
    \A t \in Tasks :
        (PushProcessed(t) /\ repoImpl = "contract" /\ tasks[t].phase = "sets")
            => \A p \in ListedPaths(t, "added") :
                  (/\ Good(p)
                   /\ files[p].id \notin DOMAIN tasks[t].base
                   /\ Carriers(t, files[p].id) = {p}
                   /\ p \notin ListedPaths(t, "modified")
                   /\ Cardinality(ListedAt(t, "added", p)) = 1)
                  => /\ files[p].id \in DOMAIN db
                     /\ \A k \in ListedAt(t, "added", p) :
                           /\ db[files[p].id].created_at
                                 = tasks[t].req.commits[k].timestamp
                           /\ db[files[p].id].updated_at
                                 = tasks[t].req.commits[k].timestamp

\* C23: every modified file that is fetched and parsed has an article in
\* the upsert set with the ID of its front matter and the timestamp of its
\* commit as updated_at, and its ID is not in the delete set
C23_ModifiedUpserted ==
    \A t \in Tasks :
        (PushProcessed(t) /\ get_repository_owner(tasks[t].event).ok)
            => \A p \in ListedPaths(t, "modified") :
                  Good(p)
                     => /\ \A k \in ListedAt(t, "modified", p) :
                              \E i \in 1..Len(tasks[t].modArticles) :
                                 /\ tasks[t].modArticles[i].id = files[p].id
                                 /\ tasks[t].modArticles[i].body = p[1]
                                 /\ tasks[t].modArticles[i].updated_at
                                       = tasks[t].req.commits[k].timestamp
                        /\ files[p].id \notin DeleteIds(t)

\* C27: every ID in the delete set belongs to an article stored at a path
\* of the push's removed list
C27_DeleteOnlyRemoved ==
    \A t \in Tasks :
        (PushProcessed(t) /\ tasks[t].phase = "sets")
            => \A id \in DeleteIds(t) :
                  \E old \in StoredPaths(t, id) : old \in ListedPaths(t, "removed")

\* C28: process_push_event returns Ok or Err for every push and the request
\* gets a response
C28_NeverAborts ==
    \A t \in Tasks :
        PushProcessed(t) => (tasks[t].outcome \in {"Ok", "Err"} /\ tasks[t].status # 0)

\* C29: the articles one push hands to the store hold each ID at most once
C29_OneArticlePerId ==
    \A t \in Tasks :
        PushProcessed(t)
            => \A id \in IDs :
                  Count(id, tasks[t].modArticles) + Count(id, tasks[t].sets.add) <= 1

\* C20: a request that verifies but has no X-GitHub-Event header, or whose
\* body does not parse as the announced event, is answered 400 and is not
\* processed
C20_MalformedRequest ==
    \A t \in Tasks :
        (/\ Arrived(t) /\ Genuine(t)
         /\ \/ ~tasks[t].req.event.present
            \/ Unparseable(tasks[t].req))
            => /\ Handled(t)
               /\ tasks[t].status = 400
               /\ ~tasks[t].called
               /\ tasks[t].phase = "none"
               /\ tasks[t].fetched = {}
               /\ Upserts(t) = <<>>
               /\ ~tasks[t].wrote

\* one request without the header and one whose body is a pull request
\* announced as a push, both for the allowed repository, both answered 400
C20_Witness ==
    \E s, t \in Tasks :
        /\ Arrived(s) /\ Genuine(s)
        /\ ~tasks[s].req.event.present
        /\ tasks[s].req.shape = "push"
        /\ tasks[s].req.repository = FullRepository(AllowedRepo)
        /\ tasks[s].req.commits # <<>>
        /\ tasks[s].status = 400 /\ ~tasks[s].called
        /\ Arrived(t) /\ Genuine(t)
        /\ tasks[t].req.event = EventHeader("push")
        /\ tasks[t].req.shape = "pull_request"
        /\ tasks[t].req.repository = FullRepository(AllowedRepo)
        /\ tasks[t].status = 400 /\ ~tasks[t].called

----------------------------------------------------------------------------
(* Properties of the classifier *)

Classified == clsOut.called

ClsList(kind) ==
    CASE kind = "added" -> clsOut.added
      [] kind = "removed" -> clsOut.removed
      [] OTHER -> clsOut.modified

ClsPaths(kind) == FetchedPaths(ClsList(kind))

\* the commits of the classified event that list path under kind
ClsListedAt(kind, path) ==
    { k \in 1..Len(clsIn.commits) :
        \E j \in 1..Len(CollectChanges(<<clsIn.commits[k]>>, kind)) :
            CollectChanges(<<clsIn.commits[k]>>, kind)[j].file_path = path }

Max(S) == CHOOSE m \in S : \A n \in S : n <= m

\* C16: the three lists hold content files only, and no other file is
\* fetched or upserted
C16_OnlyContentFiles ==
    /\ Classified =>
          \A kind \in Kinds : \A p \in ClsPaths(kind) : is_valid_file(p)
    /\ \A t \in Tasks :
          PushProcessed(t) =>
             /\ \A p \in tasks[t].fetched : is_valid_file(p)
             /\ \A i \in 1..Len(Upserts(t)) :
                   \E p \in AllPaths : p[1] = Upserts(t)[i].body /\ is_valid_file(p)

\* C17: a path listed under one classification by several commits has one
\* record in that list, with the timestamp of the last commit listing it
C17_LastRecordWins ==
    (Classified /\ clsIn.kind = "push" /\ clsIn.specific = "push")
        => \A kind \in Kinds : \A p \in AllPaths :
              ClsListedAt(kind, p) # {}
                 => /\ Cardinality({ i \in 1..Len(ClsList(kind)) :
                                       ClsList(kind)[i].file_path = p }) = 1
                    /\ \A i \in 1..Len(ClsList(kind)) :
                          ClsList(kind)[i].file_path = p
                             => ClsList(kind)[i].timestamp
                                   = clsIn.commits[Max(ClsListedAt(kind, p))].timestamp

\* C18: no path is in two of the three lists
C18_ListsDisjoint ==
    Classified
        => /\ ClsPaths("added") \cap ClsPaths("modified") = {}
           /\ ClsPaths("added") \cap ClsPaths("removed") = {}
           /\ ClsPaths("modified") \cap ClsPaths("removed") = {}

\* C19: for an event that is not a push get_push_file_changes returns three
\* empty lists, and a delivery of such an event fetches nothing, builds no
\* article and writes nothing
C19_NonPushYieldsNothing ==
    /\ (Classified /\ clsIn.kind # "push")
          => (clsOut.added = <<>> /\ clsOut.removed = <<>> /\ clsOut.modified = <<>>)
    /\ \A t \in Tasks :
          (Arrived(t) /\ tasks[t].called /\ tasks[t].req.event.value # "push")
             => /\ tasks[t].fetched = {}
                /\ Upserts(t) = <<>>
                /\ tasks[t].sets.remove = <<>>
                /\ tasks[t].phase = "none"
                /\ ~tasks[t].wrote

C19_Witness ==
    /\ Classified
    /\ clsIn.kind = "pull_request"
    /\ Len(clsIn.commits) = 2
    /\ clsOut.added = <<>> /\ clsOut.removed = <<>> /\ clsOut.modified = <<>>

----------------------------------------------------------------------------
(* Properties of the tasks, the lock and the index *)

\* the task t evaluated the membership test
Checked(t) == tasks[t].tested

\* the store row of the article's ID is the one this article wrote
Visible(a) ==
    /\ a.id \in DOMAIN db
    /\ db[a.id].body = a.body
    /\ db[a.id].updated_at = a.updated_at

\* C22: a push writes nothing before its sets are complete, and a push that
\* ends in a failure has written nothing
C22_NoWriteBeforeSets ==
    \A t \in Tasks :
        /\ tasks[t].pc \in {"read_store", "fetch_added"} => ~tasks[t].wrote
        /\ (Handled(t) /\ tasks[t].outcome \in {"Err", "Panic"}) => ~tasks[t].wrote

\* C24: a read of the store sees, for each push, all of its upserts or none
C24_NoPartialPush ==
    \A t \in Tasks :
        (Handled(t) /\ tasks[t].phase = "sets"
           /\ \E i \in 1..Len(Upserts(t)) : Visible(Upserts(t)[i]))
            => \A i \in 1..Len(Upserts(t)) : Upserts(t)[i].id \in DOMAIN db

\* C25: when a push that wrote to the store has been handled, the index
\* holds the articles it wrote
C25_IndexFollowsCommit ==
    \A t \in Tasks :
        (Handled(t) /\ tasks[t].wrote)
            => /\ index.exists
               /\ \A i \in 1..Len(tasks[t].modArticles) :
                     /\ tasks[t].modArticles[i].id \in DOMAIN index.docs
                     /\ index.docs[tasks[t].modArticles[i].id].updated_at
                           >= tasks[t].modArticles[i].updated_at

\* C26: an event whose repository is not in the allowed set when the
\* membership test runs is answered 200 with Ok, and no file is fetched and
\* nothing written for it
C26_NotAllowedIgnored ==
    \A t \in Tasks :
        (Checked(t) /\ get_repository_name(tasks[t].event).name \notin tasks[t].checked)
            => /\ Handled(t)
               /\ tasks[t].status = 200
               /\ tasks[t].outcome = "Ok"
               /\ tasks[t].phase = "none"
               /\ tasks[t].fetched = {}
               /\ ~tasks[t].wrote
               /\ tasks[t].modArticles = <<>>

C26_Witness ==
    \E t \in Tasks :
        /\ Checked(t)
        /\ tasks[t].event.kind = "push"
        /\ tasks[t].event.repository = FullRepository(AllowedRepo)
        /\ tasks[t].checked = {OtherRepo}
        /\ tasks[t].status = 200

\* C30: a task holds the read lock only while it evaluates the membership
\* test, never while it reconciles or after it ended, and a reload that
\* fails leaves the allowed set as it was
C30_ReadLockOnlyForCheck ==
    /\ \A t \in Tasks : t \in lock.readers => tasks[t].pc = "check"
    /\ watcher.last = "Err" => allowed = watcher.before

C30_Witness ==
    /\ watcher.last = "Ok"
    /\ watcher.busy
    /\ watcher.pc = "idle"
    /\ allowed # watcher.before
    /\ Reconciling

----------------------------------------------------------------------------
(* Properties of the transactional guard *)

\* C11: once a staging call or the commit has returned Err, the persisted
\* articles are those of before begin_transaction, whatever was staged
C11_AllOrNothing == guard.inner.erred => db = guard.inner.base

C11_Witness ==
    /\ guard.inner.state = "aborted"
    /\ guard.inner.call.op = "insert"
    /\ guard.inner.call.fails
    /\ Len(guard.inner.call.articles) = 3
    /\ guard.inner.staged # guard.inner.prev
    /\ guard.inner.staged # guard.inner.base
    /\ db = guard.inner.base

\* C12: staged changes are not in the store while the guard is open or after
\* it was dropped, and a commit that returns Ok makes the store the staged one
C12_VisibleOnlyThroughCommit ==
    /\ guard.inner.state \in {"open", "dropped"} => db = guard.inner.base
    /\ guard.inner.state = "committed" => db = guard.inner.staged

C12_Witness ==
    /\ guard.inner.state = "committed"
    /\ guard.inner.calls = 2
    /\ db = guard.inner.staged
    /\ db # guard.inner.base

\* C15: a delete_batch on an open unit of work that meets no storage fault
\* returns Ok, also for ids that are not stored, removes the stored articles
\* whose ids are given and leaves the others as they were
C15_DeleteBatchExact ==
    (guard.inner.call.op = "delete" /\ guard.inner.call.was = "open"
       /\ ~guard.inner.call.fails)
        => /\ guard.inner.call.ok
           /\ DOMAIN guard.inner.staged = DOMAIN guard.inner.prev \ guard.inner.call.ids
           /\ \A i \in DOMAIN guard.inner.staged :
                 guard.inner.staged[i] = guard.inner.prev[i]
           /\ guard.inner.state = "committed" => db = guard.inner.staged

C15_Witness ==
    /\ guard.inner.state = "committed"
    /\ guard.inner.call.op = "delete"
    /\ guard.inner.call.ok
    /\ guard.inner.call.ids = {"x", "z"}
    /\ DOMAIN guard.inner.prev = {"x", "y"}
    /\ DOMAIN db = {"y"}

\* C21: is_valid_id is false exactly when the lookup finds an article with
\* the ID; it is true when none has it and when the lookup fails
C21_ValidIdIffNotFound ==
    idCall.called
        => /\ (idCall.valid = FALSE) <=> (~idCall.fails /\ idCall.id \in idCall.stored)
           /\ (~idCall.fails /\ idCall.id \notin idCall.stored) => idCall.valid
           /\ idCall.fails => idCall.valid

C21_Witness ==
    /\ idCall.called
    /\ idCall.fails
    /\ idCall.id \in idCall.stored
    /\ idCall.valid

----------------------------------------------------------------------------
(* Properties of verify_signature *)

Verified == sigOut # ""

to_lower(c) == IF \E i \in 1..16 : HexUpper[i] = c
               THEN HexLower[CHOOSE i \in 1..16 : HexUpper[i] = c]
               ELSE c
LowerSeq(s) == [i \in 1..Len(s) |-> to_lower(s[i])]

ExpectedHex == hex_encode(hmac_sha256(sigIn.secret.key, sigIn.payload))

\* C3 as stated: success exactly when the header is "sha256=" followed by
\* the hex HMAC of the body under the secret
C3_ExactHeader ==
    Verified => (sigOut = "Ok" <=> sigIn.header = Header(Sha256Prefix \o ExpectedHex))

\* C3 amended: success exactly when the header is "sha256=" followed by the
\* hex HMAC of the body under the secret, its letters in either case
C3_HeaderUpToCase ==
    Verified =>
        (sigOut = "Ok" <=>
            /\ sigIn.header.present
            /\ strip_prefix(sigIn.header.value, Sha256Prefix).some
            /\ LowerSeq(strip_prefix(sigIn.header.value, Sha256Prefix).rest) = ExpectedHex)

C3_Witness ==
    /\ Verified /\ sigOut = "Ok"
    /\ sigIn.header # Header(Sha256Prefix \o ExpectedHex)

\* C4: every failure of verify_signature is VerifySignatureFailed, answered 401
C4_SingleFailure ==
    Verified => \/ sigOut = "Ok"
                \/ sigOut = "VerifySignatureFailed" /\ into_response(sigOut) = 401

C4_Witness ==
    /\ Verified /\ sigOut = "VerifySignatureFailed"
    /\ ~sigIn.header.present

====
